---- MODULE Spec2Model ----
(***************************************************************************)
(* State-machine model of the initflow backend's task / change / spec      *)
(* pipeline: the record store tables (projects, spec_files, spec_versions, *)
(* tasks, code_changes), the request handlers of routers/projects.py,      *)
(* routers/specs.py and routers/agents.py, and the generation service of   *)
(* services/ai_service.py.                                                 *)
(*                                                                         *)
(* Row ids are uuid4 values in the code; here a row's id is its index in   *)
(* its table (fresh and unique, as a uuid4 is).                            *)
(***************************************************************************)
EXTENDS Integers, Sequences, FiniteSets, TLC

\* ---------------------------------------------------------------- bounds

MaxProjects == 2
MaxSpecVersions == 3
MaxTasks == 2
MaxRequests == 4

\* ------------------------------------------------------- fixed environment

\* The users table (owned by the auth collaborator): two accounts.
Users == {"u1", "u2"}

\* Every account of the users table, by its tier column: u3 is premium, u4
\* holds a value that is none of UserTier's.
Accounts == {"u1", "u2", "u3", "u4"}

UserTier(u) ==
    IF u = "u1" THEN "free"
    ELSE IF u = "u2" THEN "pro"
    ELSE IF u = "u3" THEN "premium"
    ELSE "enterprise"

SpecTypes == <<"design", "requirements", "tasks">>

SpecTypeSet == {SpecTypes[i] : i \in DOMAIN SpecTypes}

\* TaskCreate.agent_type as requests send it. "testing" is left out of the
\* requests: like "backend" it yields one file on either tier.
AgentTypes == {"design", "backend"}

\* Request bodies: SpecFileUpdate.content, ChangeModification.feedback.
Contents == {"A", "B"}

Feedbacks == {"fb"}

Descriptions == {"add login"}

Workers == {1, 2}

\* ------------------------------------------------------------------ state

\* The five tables of the record store; gateway_calls counts the calls made to
\* ai_service.generate_code; resp is the last response sent (the handler and its
\* HTTP status); completed counts, per handler and per row the handler acted
\* on, the requests that returned 200; req is what each in-flight request holds in its
\* local variables.
\* Columns no handler modelled here reads back (name, description, timestamps,
\* created_by, changes_summary, diff, reasoning) are left out of the rows.
VARIABLES projects, spec_files, spec_versions, tasks, code_changes,
          gateway_calls, resp, completed, req

store == <<projects, spec_files, spec_versions, tasks, code_changes>>

vars == <<projects, spec_files, spec_versions, tasks, code_changes,
          gateway_calls, resp, completed, req>>

Response(op, status) == [op |-> op, status |-> status]

NoResponse == Response("none", 0)

SpecIds == 1..(Len(SpecTypes) * MaxProjects)

Completed(op, spec_id) ==
    [completed EXCEPT ![op][spec_id] = @ + 1]

\* A worker with no request in hand; otherwise the handler it runs (op), where
\* it stands (pc) and the handler's local variables.
Idle == [pc |-> "idle", op |-> "-", actor |-> "-", tier |-> "-", task_id |-> 0,
         agent_type |-> "-", content |-> "-", spec_id |-> 0,
         cur_version |-> 0, cur_content |-> "-",
         target_version |-> 0, target_content |-> "-",
         task_response |-> [null |-> TRUE],
         project_id |-> 0, change_id |-> 0, change |-> [null |-> TRUE],
         feedback |-> "-"]

IdleWorkers == {w \in Workers : req[w].pc = "idle"}

\* Requests are taken by the first free worker (workers are interchangeable).
Free(w) == w \in IdleWorkers /\ \A v \in IdleWorkers : w <= v

\* None, in a column that holds a dict.
Null == [null |-> TRUE]

\* supabase.table(t).insert(row).execute()
InsertRow(table, row) == Append(table, row)

\* The last response has gone out to its client. A response stays in resp for
\* one step, in which nothing else happens: Reply hands it over, and the next
\* handler step is taken after that.
Ready == resp = NoResponse

Reply ==
    /\ resp # NoResponse
    /\ resp' = NoResponse
    /\ UNCHANGED <<store, gateway_calls, completed, req>>

\* raise HTTPException(...): the handler ends, nothing after it runs.
Abort(r) ==
    /\ resp' = r
    /\ UNCHANGED <<store, gateway_calls, completed, req>>

Init ==
    /\ projects = <<>>
    /\ spec_files = <<>>
    /\ spec_versions = <<>>
    /\ tasks = <<>>
    /\ code_changes = <<>>
    /\ gateway_calls = 0
    /\ resp = NoResponse
    /\ completed = [op \in {"update", "rollback"} |-> [id \in SpecIds |-> 0]]
    /\ req = [w \in Workers |-> Idle]

\* ------------------------------------------------------- routers/projects.py

TierLimit(tier) == IF tier = "free" THEN 1 ELSE -1

\* check_tier_limits: TRUE when the request is refused.
LimitReached(tier, projects_count) ==
    TierLimit(tier) # -1 /\ projects_count >= TierLimit(tier)

InitialContent(spec_type) == "# " \o spec_type

InitialVersion == 1

InitialSpecFile(pid, spec_type) ==
    [project_id |-> pid, file_type |-> spec_type,
     content |-> InitialContent(spec_type), version |-> InitialVersion]

RECURSIVE InitSpecFiles(_, _, _)
InitSpecFiles(files, pid, i) ==
    IF i > Len(SpecTypes) THEN files
    ELSE InitSpecFiles(InsertRow(files, InitialSpecFile(pid, SpecTypes[i])),
                       pid, i + 1)

NewProject(actor) ==
    [user_id |-> actor, status |-> "draft", tier |-> UserTier(actor)]

CreateProject(actor) ==
    /\ Ready
    /\ LET count == Cardinality({p \in DOMAIN projects : projects[p].user_id = actor})
           pid == Len(projects) + 1
       IN  IF LimitReached(UserTier(actor), count)
           THEN Abort(Response("create_project", 403))
           ELSE /\ Len(projects) < MaxProjects
                /\ projects' = InsertRow(projects, NewProject(actor))
                /\ spec_files' = InitSpecFiles(spec_files, pid, 1)
                /\ resp' = Response("create_project", 201)
                /\ UNCHANGED <<spec_versions, tasks, code_changes, gateway_calls, completed, req>>

\* ----- create_project, one store call at a time

\* Requests that have passed check_tier_limits and have yet to insert.
Creating == {w \in Workers : req[w].pc = "insert_project"}

ProjectsOf(actor) == {p \in DOMAIN projects : projects[p].user_id = actor}

\* create_project, lines 58-64: the select of the caller's projects and
\* check_tier_limits on their number.
CreateCount(w, actor) ==
    /\ Ready
    /\ Free(w)
    /\ IF LimitReached(UserTier(actor), Cardinality(ProjectsOf(actor)))
       THEN Abort(Response("create_project", 403))
       ELSE /\ Len(projects) + Cardinality(Creating) < MaxProjects
            /\ req' = [req EXCEPT ![w] = [Idle EXCEPT !.pc = "insert_project",
                            !.op = "create_project", !.actor = actor,
                            !.tier = UserTier(actor)]]
            /\ UNCHANGED <<store, gateway_calls, resp, completed>>

\* create_project, lines 66-99: the insert of the project, then of its spec
\* files (which no other request of create_project reads), and the return.
CreateInsert(w) ==
    /\ Ready
    /\ req[w].pc = "insert_project"
    /\ projects' = InsertRow(projects, NewProject(req[w].actor))
    /\ spec_files' = InitSpecFiles(spec_files, Len(projects) + 1, 1)
    /\ resp' = Response("create_project", 201)
    /\ req' = [req EXCEPT ![w] = Idle]
    /\ UNCHANGED <<spec_versions, tasks, code_changes, gateway_calls, completed>>

NextCreate ==
    \/ \E w \in Workers, actor \in Accounts : CreateCount(w, actor)
    \/ \E w \in Workers : CreateInsert(w)
    \/ Reply

\* Project creation with requests served concurrently, from the empty store.
SpecCreate == Init /\ [][NextCreate]_vars

\* The store once u1 and then u2 have each created a project: the state the
\* ledger and the review are exercised from.
InitPopulated ==
    /\ projects = <<NewProject("u1"), NewProject("u2")>>
    /\ spec_files = InitSpecFiles(InitSpecFiles(<<>>, 1, 1), 2, 1)
    /\ spec_versions = <<>>
    /\ tasks = <<>>
    /\ code_changes = <<>>
    /\ gateway_calls = 0
    /\ resp = NoResponse
    /\ completed = [op \in {"update", "rollback"} |-> [id \in SpecIds |-> 0]]
    /\ req = [w \in Workers |-> Idle]

\* The store once u1 has created a project.
InitOneProject ==
    /\ projects = <<NewProject("u1")>>
    /\ spec_files = InitSpecFiles(<<>>, 1, 1)
    /\ spec_versions = <<>>
    /\ tasks = <<>>
    /\ code_changes = <<>>
    /\ gateway_calls = 0
    /\ resp = NoResponse
    /\ completed = [op \in {"update", "rollback"} |-> [id \in SpecIds |-> 0]]
    /\ req = [w \in Workers |-> Idle]

\* ---------------------------------------------------------- routers/specs.py

\* .eq("project_id", ..).eq("file_type", ..).order("version", desc=True).limit(1)
CurrentSpecIds(files, pid, ft) ==
    LET match == {i \in DOMAIN files :
                    files[i].project_id = pid /\ files[i].file_type = ft}
    IN  {i \in match : \A j \in match : files[j].version <= files[i].version}

\* version_data / history_data: the snapshot row written before the file changes.
SnapshotRow_PostVersion(spec_id, cur) ==
    [spec_file_id |-> spec_id, version |-> cur.version + 1, content |-> cur.content]

SnapshotRow(spec_id, cur) ==
    [spec_file_id |-> spec_id, version |-> cur.version, content |-> cur.content]

SaveHistory_KeepLatest(versions, row) ==
    InsertRow(SelectSeq(versions, LAMBDA r : r.spec_file_id # row.spec_file_id), row)

\* supabase.table("spec_versions").insert(row).execute()
SaveHistory(versions, row) == InsertRow(versions, row)

\* new_version = current_spec["version"] + 1
NewVersion(version) == version + 1

\* update_data of update_spec_file
UpdateData(cur, content) ==
    [content |-> content, version |-> NewVersion(cur.version)]

RollbackData_Rewind(cur, version) ==
    [content |-> version.content, version |-> version.version]

\* update_data of rollback_spec
RollbackData(cur, version) ==
    [content |-> version.content, version |-> NewVersion(cur.version)]

ApplyUpdate_InsertRow(files, spec_id, data) ==
    InsertRow(files, [files[spec_id] EXCEPT !.content = data.content,
                                            !.version = data.version])

\* supabase.table("spec_files").update(data).eq("id", spec_id).execute()
ApplyUpdate(files, spec_id, data) ==
    [files EXCEPT ![spec_id].content = data.content,
                  ![spec_id].version = data.version]

UpdateSpecFile_SnapshotAfter(actor, pid, ft, content) ==
    /\ Ready
    /\ IF CurrentSpecIds(spec_files, pid, ft) = {}
       THEN Abort(Response("update", 404))
       ELSE \E id \in CurrentSpecIds(spec_files, pid, ft) :
              LET cur == spec_files[id]
                  new == ApplyUpdate(spec_files, id, UpdateData(cur, content))
              IN  /\ Len(spec_versions) < MaxSpecVersions
                  /\ spec_files' = new
                  /\ spec_versions' = SaveHistory(spec_versions,
                         SnapshotRow(id, new[id]))
                  /\ resp' = Response("update", 200)
                  /\ completed' = Completed("update", id)
                  /\ UNCHANGED <<projects, tasks, code_changes, gateway_calls, req>>

UpdateSpecFile(actor, pid, ft, content) ==
    /\ Ready
    /\ IF CurrentSpecIds(spec_files, pid, ft) = {}
       THEN Abort(Response("update", 404))
       ELSE \E id \in CurrentSpecIds(spec_files, pid, ft) :
              LET cur == spec_files[id]
              IN  /\ Len(spec_versions) < MaxSpecVersions
                  /\ spec_versions' = SaveHistory(spec_versions,
                         SnapshotRow(id, cur))
                  /\ spec_files' = ApplyUpdate(spec_files, id,
                                               UpdateData(cur, content))
                  /\ resp' = Response("update", 200)
                  /\ completed' = Completed("update", id)
                  /\ UNCHANGED <<projects, tasks, code_changes, gateway_calls, req>>

RollbackSpec_NoCheckpoint(actor, pid, ft, version_id) ==
    /\ Ready
    /\ IF version_id \notin DOMAIN spec_versions
       THEN Abort(Response("rollback", 404))
       ELSE LET version == spec_versions[version_id]
                id == version.spec_file_id
            IN  /\ Len(spec_versions) < MaxSpecVersions
                /\ spec_files' = ApplyUpdate(spec_files, id,
                       RollbackData(spec_files[id], version))
                /\ resp' = Response("rollback", 200)
                /\ completed' = Completed("rollback", id)
                /\ UNCHANGED <<projects, spec_versions, tasks, code_changes,
                               gateway_calls, req>>

RollbackSpec(actor, pid, ft, version_id) ==
    /\ Ready
    /\ IF version_id \notin DOMAIN spec_versions
       THEN Abort(Response("rollback", 404))
       ELSE LET version == spec_versions[version_id]
                id == version.spec_file_id
            IN  IF id \notin DOMAIN spec_files
                THEN Abort(Response("rollback", 404))
                ELSE LET cur == spec_files[id]
                     IN  /\ Len(spec_versions) < MaxSpecVersions
                         /\ spec_versions' = SaveHistory(spec_versions,
                                SnapshotRow(id, cur))
                         /\ spec_files' = ApplyUpdate(spec_files, id,
                                RollbackData(cur, version))
                         /\ resp' = Response("rollback", 200)
                         /\ completed' = Completed("rollback", id)
                         /\ UNCHANGED <<projects, tasks, code_changes, gateway_calls, req>>

\* ------------------------------------------------- services/ai_service.py

GenerateBasicCode(agent_type) ==
    IF agent_type = "design" THEN <<"components/GeneratedComponent.js">>
    ELSE IF agent_type = "backend" THEN <<"services/generatedService.js">>
    ELSE <<"__tests__/GeneratedComponent.test.js">>

GenerateAdvancedCode(agent_type) ==
    IF agent_type = "design"
    THEN <<"components/AdvancedComponent.tsx", "hooks/useAdvancedComponent.ts">>
    ELSE IF agent_type = "backend" THEN <<"services/AdvancedAPIService.ts">>
    ELSE <<"__tests__/AdvancedComponent.test.tsx">>

\* self.models
Models ==
    [free    |-> [name |-> "llama-3.1-8b", max_tokens |-> 2048,
                  context_window |-> 8192],
     pro     |-> [name |-> "gemini-2.0-flash-exp", max_tokens |-> 4096,
                  context_window |-> 32768],
     premium |-> [name |-> "gemini-2.0-flash-exp", max_tokens |-> 8192,
                  context_window |-> 1000000]]

KnownTiers == DOMAIN Models

ModelConfig_NoFallback(tier) ==
    IF tier \in KnownTiers THEN Models[tier] ELSE Null

\* self.models.get(user.tier, self.models["free"])
ModelConfig(tier) ==
    IF tier \in KnownTiers THEN Models[tier] ELSE Models["free"]

\* if user.tier in ["pro", "premium"]: the generator generate_code hands over to.
GenerationPath(tier) ==
    IF tier \in {"pro", "premium"} THEN "advanced" ELSE "basic"

\* generate_code: the keys of code_result["files"], in dict order.
GenerateCode(tier, agent_type) ==
    IF GenerationPath(tier) = "advanced"
    THEN GenerateAdvancedCode(agent_type)
    ELSE GenerateBasicCode(agent_type)

\* --------------------------------------------------------- routers/agents.py

\* submit_task's "Verify project access": the status it raises, 200 if none.
ProjectGuard(actor, pid) ==
    IF pid \notin DOMAIN projects THEN 404
    ELSE IF projects[pid].user_id # actor THEN 403
    ELSE 200

NewTask(pid, agent_type, description) ==
    [project_id |-> pid, agent_type |-> agent_type, description |-> description,
     status |-> "pending", input_context |-> [user_request |-> description],
     output |-> Null]

\* submit_task up to the await of ai_service.generate_code (through
\* process_agent_task): the task is stored, the generation call is in flight.
SubmitTask(w, actor, pid, agent_type, description) ==
    /\ Ready
    /\ Free(w)
    /\ IF ProjectGuard(actor, pid) # 200
       THEN Abort(Response("submit", ProjectGuard(actor, pid)))
       ELSE /\ Len(tasks) < MaxTasks
            /\ tasks' = InsertRow(tasks, NewTask(pid, agent_type, description))
            /\ gateway_calls' = gateway_calls + 1
            /\ req' = [req EXCEPT ![w] = [Idle EXCEPT !.pc = "generate",
                            !.op = "submit", !.actor = actor,
                            !.tier = UserTier(actor),
                            !.task_response =
                                NewTask(pid, agent_type, description),
                            !.task_id = Len(tasks) + 1, !.agent_type = agent_type]]
            /\ UNCHANGED <<projects, spec_files, spec_versions, code_changes,
                           resp, completed>>

GeneratedChange(task_id, file_path, agent_type) ==
    [task_id |-> task_id, file_path |-> file_path, change_type |-> "create",
     agent_type |-> agent_type, approved |-> "null"]

InsertChanges_FirstOnly(changes, task_id, agent_type, files, i) ==
    IF Len(files) = 0 THEN changes
    ELSE InsertRow(changes, GeneratedChange(task_id, files[1], agent_type))

RECURSIVE InsertChanges(_, _, _, _, _)
InsertChanges(changes, task_id, agent_type, files, i) ==
    IF i > Len(files) THEN changes
    ELSE InsertChanges(InsertRow(changes, GeneratedChange(task_id, files[i], agent_type)),
                       task_id, agent_type, files, i + 1)

\* .update({"status": "completed", "output": ...}).eq("id", task_id)
CompleteTask(table, task_id, output) ==
    [table EXCEPT ![task_id].status = "completed", ![task_id].output = output]

\* return Task(**task_response.data[0]): the row as the insert returned it.
SubmitResponse(task_id, task_response) ==
    [op |-> "submit", status |-> 200, task_id |-> task_id, task |-> task_response]

\* generate_code returns: the rest of process_agent_task, then submit_task's return.
GenerationReturns(w) ==
    /\ Ready
    /\ req[w].pc = "generate"
    /\ LET files == GenerateCode(req[w].tier, req[w].agent_type)
       IN  /\ code_changes' = InsertChanges(code_changes, req[w].task_id,
                                            req[w].agent_type, files, 1)
           /\ tasks' = CompleteTask(tasks, req[w].task_id, [generated_files |-> files])
    /\ resp' = SubmitResponse(req[w].task_id, req[w].task_response)
    /\ req' = [req EXCEPT ![w] = Idle]
    /\ UNCHANGED <<projects, spec_files, spec_versions, gateway_calls, completed>>

\* generate_code raises (the backend fails or times out): nothing catches it in
\* process_agent_task or submit_task, the request ends in a 500.
GenerationFails(w) ==
    /\ Ready
    /\ req[w].pc = "generate"
    /\ resp' = Response("submit", 500)
    /\ req' = [req EXCEPT ![w] = Idle]
    /\ UNCHANGED <<store, gateway_calls, completed>>

FindChange_AnyProject(pid, cid) ==
    {c \in DOMAIN code_changes : c = cid /\ pid \in DOMAIN projects}

\* .order("created_at", desc=True): rows carry the time of their insert, so a
\* later row of the table is a more recent one.
RECURSIVE OrderDesc(_)
OrderDesc(ids) ==
    IF ids = {} THEN <<>>
    ELSE LET latest == CHOOSE c \in ids : \A e \in ids : e <= c
         IN  <<latest>> \o OrderDesc(ids \ {latest})

PendingChanges_AnyApproval(pid) ==
    OrderDesc({c \in DOMAIN code_changes :
                 tasks[code_changes[c].task_id].project_id = pid})

\* code_changes with tasks!inner, .eq("tasks.project_id", project_id)
\* .is_("approved", "null").order("created_at", desc=True)
PendingChanges(pid) ==
    OrderDesc({c \in DOMAIN code_changes :
                 /\ code_changes[c].task_id \in DOMAIN tasks
                 /\ tasks[code_changes[c].task_id].project_id = pid
                 /\ code_changes[c].approved = "null"})

\* get_pending_changes: the ids of the rows returned, in the order returned.
GetPendingChanges(actor, pid) ==
    /\ Ready
    /\ IF ProjectGuard(actor, pid) # 200
       THEN Abort(Response("pending", ProjectGuard(actor, pid)))
       ELSE /\ resp' = [op |-> "pending", status |-> 200,
                        changes |-> PendingChanges(pid)]
            /\ UNCHANGED <<store, gateway_calls, completed, req>>

\* The join of approve_change, reject_change and request_modification:
\* code_changes with tasks!inner(projects!inner), .eq("id", change_id)
\* .eq("tasks.project_id", project_id).
FindChange(pid, cid) ==
    {c \in DOMAIN code_changes :
        /\ c = cid
        /\ code_changes[c].task_id \in DOMAIN tasks
        /\ tasks[code_changes[c].task_id].project_id = pid
        /\ pid \in DOMAIN projects}

ChangeGuard_NoOwnerCheck(actor, pid, cid) ==
    IF FindChange(pid, cid) = {} THEN 404 ELSE 200

\* "Verify change exists and belongs to user's project": the status raised,
\* 200 if none.
ChangeGuard(actor, pid, cid) ==
    IF FindChange(pid, cid) = {} THEN 404
    ELSE IF projects[pid].user_id # actor THEN 403
    ELSE 200

\* .update({"approved": value}).eq("id", change_id)
SetApproved(table, cid, value) ==
    [table EXCEPT ![cid].approved = value]

ApproveChange_WriteFirst(actor, pid, cid) ==
    /\ Ready
    /\ resp' = Response("approve", ChangeGuard(actor, pid, cid))
    /\ code_changes' = IF cid \in DOMAIN code_changes
                        THEN SetApproved(code_changes, cid, "true")
                        ELSE code_changes
    /\ UNCHANGED <<projects, spec_files, spec_versions, tasks, gateway_calls,
                   completed, req>>

ApproveChange(actor, pid, cid) ==
    /\ Ready
    /\ IF ChangeGuard(actor, pid, cid) # 200
       THEN Abort(Response("approve", ChangeGuard(actor, pid, cid)))
       ELSE /\ code_changes' = SetApproved(code_changes, cid, "true")
            /\ resp' = Response("approve", 200)
            /\ UNCHANGED <<projects, spec_files, spec_versions, tasks, gateway_calls,
                           completed, req>>

RejectChange(actor, pid, cid) ==
    /\ Ready
    /\ IF ChangeGuard(actor, pid, cid) # 200
       THEN Abort(Response("reject", ChangeGuard(actor, pid, cid)))
       ELSE /\ code_changes' = SetApproved(code_changes, cid, "false")
            /\ resp' = Response("reject", 200)
            /\ UNCHANGED <<projects, spec_files, spec_versions, tasks, gateway_calls,
                           completed, req>>

ModificationTask(pid, change, cid, feedback) ==
    [project_id |-> pid, agent_type |-> change.agent_type,
     description |-> "Modify previous change: " \o feedback,
     status |-> "pending",
     input_context |-> [modification_request |-> feedback,
                        original_change_id |-> cid,
                        original_file |-> change.file_path],
     output |-> Null]

ModifiedChange_AsCreate(task_id, original_change) ==
    [task_id |-> task_id, file_path |-> original_change.file_path,
     change_type |-> "create", agent_type |-> original_change.agent_type,
     approved |-> "null"]

\* change_data of process_modification_request
ModifiedChange(task_id, original_change) ==
    [task_id |-> task_id, file_path |-> original_change.file_path,
     change_type |-> "modify", agent_type |-> original_change.agent_type,
     approved |-> "null"]

\* request_modification with process_modification_request, which awaits nothing
\* that suspends: the new change is built from the original change's diff.
RequestModification(actor, pid, cid, feedback) ==
    /\ Ready
    /\ IF ChangeGuard(actor, pid, cid) # 200
       THEN Abort(Response("modify", ChangeGuard(actor, pid, cid)))
       ELSE LET change == code_changes[cid]
                task_id == Len(tasks) + 1
            IN  /\ Len(tasks) < MaxTasks
                /\ tasks' = CompleteTask(
                       InsertRow(tasks, ModificationTask(pid, change, cid, feedback)),
                       task_id, [modification_applied |-> TRUE, feedback |-> feedback])
                /\ code_changes' = InsertRow(SetApproved(code_changes, cid, "false"),
                                             ModifiedChange(task_id, change))
                /\ resp' = Response("modify", 200)
                /\ UNCHANGED <<projects, spec_files, spec_versions, gateway_calls,
                               completed, req>>

\* ------------------------------------------------------------ specifications

\* Project ids a request may name: every stored project and one that is not.
ProjectIds == 1..(Len(projects) + 1)

\* Version ids a rollback may name: every stored version and one that is not.
VersionIds == 1..(Len(spec_versions) + 1)

NextLedger ==
    \/ \E actor \in Users, pid \in ProjectIds, ft \in SpecTypeSet, content \in Contents :
         UpdateSpecFile(actor, pid, ft, content)
    \/ \E actor \in Users, pid \in ProjectIds, ft \in SpecTypeSet, vid \in VersionIds :
         RollbackSpec(actor, pid, ft, vid)
    \/ Reply

\* The spec version ledger, every request run to completion before the next.
SpecLedger == InitPopulated /\ [][NextLedger]_vars

\* ----- update_spec_file and rollback_spec, one store call at a time

\* Requests that have yet to write their snapshot row.
Unsaved == {w \in Workers : req[w].pc \in {"read_spec", "snapshot"}}

\* current_spec as the request read it.
Cur(w) == [version |-> req[w].cur_version, content |-> req[w].cur_content]

\* version as rollback_spec read it.
Target(w) == [version |-> req[w].target_version, content |-> req[w].target_content]

\* update_spec_file, lines 47-62: select the current spec file.
UpdateRead(w, actor, pid, ft, content) ==
    /\ Ready
    /\ Free(w)
    /\ IF CurrentSpecIds(spec_files, pid, ft) = {}
       THEN Abort(Response("update", 404))
       ELSE \E id \in CurrentSpecIds(spec_files, pid, ft) :
              /\ Len(spec_versions) + Cardinality(Unsaved) < MaxRequests
              /\ req' = [req EXCEPT ![w] = [Idle EXCEPT !.pc = "snapshot",
                              !.op = "update", !.content = content,
                              !.spec_id = id,
                              !.cur_version = spec_files[id].version,
                              !.cur_content = spec_files[id].content]]
              /\ UNCHANGED <<store, gateway_calls, resp, completed>>

\* rollback_spec, lines 134-146: select the version to roll back to.
RollbackReadVersion(w, actor, pid, ft, version_id) ==
    /\ Ready
    /\ Free(w)
    /\ IF version_id \notin DOMAIN spec_versions
       THEN Abort(Response("rollback", 404))
       ELSE /\ Len(spec_versions) + Cardinality(Unsaved) < MaxRequests
            /\ req' = [req EXCEPT ![w] = [Idle EXCEPT !.pc = "read_spec",
                            !.op = "rollback",
                            !.spec_id = spec_versions[version_id].spec_file_id,
                            !.target_version = spec_versions[version_id].version,
                            !.target_content = spec_versions[version_id].content]]
            /\ UNCHANGED <<store, gateway_calls, resp, completed>>

\* rollback_spec, lines 148-160: select the spec file of that version.
RollbackReadSpec(w) ==
    /\ Ready
    /\ req[w].pc = "read_spec"
    /\ IF req[w].spec_id \notin DOMAIN spec_files
       THEN /\ resp' = Response("rollback", 404)
            /\ req' = [req EXCEPT ![w] = Idle]
            /\ UNCHANGED <<store, gateway_calls, completed>>
       ELSE /\ req' = [req EXCEPT ![w].pc = "snapshot",
                                  ![w].cur_version = spec_files[req[w].spec_id].version,
                                  ![w].cur_content = spec_files[req[w].spec_id].content]
            /\ UNCHANGED <<store, gateway_calls, resp, completed>>

\* Lines 64-75 and 162-173: insert the snapshot of what was read.
Snapshot(w) ==
    /\ Ready
    /\ req[w].pc = "snapshot"
    /\ spec_versions' = SaveHistory(spec_versions, SnapshotRow(req[w].spec_id, Cur(w)))
    /\ req' = [req EXCEPT ![w].pc = "write"]
    /\ UNCHANGED <<projects, spec_files, tasks, code_changes, gateway_calls,
                   resp, completed>>

\* Lines 77-89 and 175-187: update the spec file from what was read, and return.
Write(w) ==
    /\ Ready
    /\ req[w].pc = "write"
    /\ spec_files' = ApplyUpdate(spec_files, req[w].spec_id,
                         IF req[w].op = "update"
                         THEN UpdateData(Cur(w), req[w].content)
                         ELSE RollbackData(Cur(w), Target(w)))
    /\ resp' = Response(req[w].op, 200)
    /\ completed' = Completed(req[w].op, req[w].spec_id)
    /\ req' = [req EXCEPT ![w] = Idle]
    /\ UNCHANGED <<projects, spec_versions, tasks, code_changes, gateway_calls>>

NextConc ==
    \/ \E w \in Workers, actor \in Users, pid \in ProjectIds, ft \in SpecTypeSet,
          content \in Contents :
         UpdateRead(w, actor, pid, ft, content)
    \/ \E w \in Workers, actor \in Users, pid \in ProjectIds, ft \in SpecTypeSet,
          vid \in VersionIds :
         RollbackReadVersion(w, actor, pid, ft, vid)
    \/ \E w \in Workers : RollbackReadSpec(w)
    \/ \E w \in Workers : Snapshot(w)
    \/ \E w \in Workers : Write(w)
    \/ Reply

\* The spec version ledger with requests served concurrently: the store is
\* shared by every worker of the deployment and the handlers take no lock, so
\* the store calls of two requests interleave.
SpecConc == InitOneProject /\ [][NextConc]_vars

\* Change ids a request may name: every stored change and one that is not stored.
ChangeIds == 1..(Len(code_changes) + 1)

NextReview ==
    \/ \E w \in Workers, actor \in Users, pid \in ProjectIds,
          agent_type \in AgentTypes, description \in Descriptions :
         SubmitTask(w, actor, pid, agent_type, description)
    \/ \E w \in Workers : GenerationReturns(w)
    \/ \E w \in Workers : GenerationFails(w)
    \/ \E actor \in Users, pid \in ProjectIds, cid \in ChangeIds :
         ApproveChange(actor, pid, cid)
    \/ \E actor \in Users, pid \in ProjectIds, cid \in ChangeIds :
         RejectChange(actor, pid, cid)
    \/ \E actor \in Users, pid \in ProjectIds, cid \in ChangeIds,
          feedback \in Feedbacks :
         RequestModification(actor, pid, cid, feedback)
    \/ Reply

\* The task orchestrator and the change review: a submit is suspended while its
\* generation call is in flight, every other handler runs to completion.
SpecReview == InitPopulated /\ [][NextReview]_vars

\* ----- approve_change, reject_change and request_modification, one store
\* ----- call at a time

\* The store once u1's submit on its project has returned.
InitDecide ==
    /\ projects = <<NewProject("u1"), NewProject("u2")>>
    /\ spec_files = InitSpecFiles(InitSpecFiles(<<>>, 1, 1), 2, 1)
    /\ spec_versions = <<>>
    /\ LET files == GenerateCode(UserTier("u1"), "design")
       IN  /\ tasks = CompleteTask(<<NewTask(1, "design", "add login")>>, 1,
                                   [generated_files |-> files])
           /\ code_changes = InsertChanges(<<>>, 1, "design", files, 1)
    /\ gateway_calls = 1
    /\ resp = NoResponse
    /\ completed = [op \in {"approve", "reject", "modify"} |->
                       [id \in 1..(MaxTasks + 1) |-> 0]]
    /\ req = [w \in Workers |-> Idle]

\* Lines 153-171, 193-209, 232-250: the select of the change and the two guards.
DecideRead(w, op, actor, pid, cid, feedback) ==
    /\ Ready
    /\ Free(w)
    /\ IF ChangeGuard(actor, pid, cid) # 200
       THEN Abort(Response(op, ChangeGuard(actor, pid, cid)))
       ELSE /\ req' = [req EXCEPT ![w] = [Idle EXCEPT
                            !.pc = IF op = "modify" THEN "insert_task" ELSE "decide",
                            !.op = op, !.actor = actor, !.project_id = pid,
                            !.change_id = cid, !.change = code_changes[cid],
                            !.feedback = feedback]]
            /\ UNCHANGED <<store, gateway_calls, resp, completed>>

\* Lines 173-181 and 213-219: the update of approved, and the return.
DecideWrite(w) ==
    /\ Ready
    /\ req[w].pc = "decide"
    /\ code_changes' = SetApproved(code_changes, req[w].change_id,
                            IF req[w].op = "approve" THEN "true" ELSE "false")
    /\ resp' = Response(req[w].op, 200)
    /\ completed' = Completed(req[w].op, req[w].change_id)
    /\ req' = [req EXCEPT ![w] = Idle]
    /\ UNCHANGED <<projects, spec_files, spec_versions, tasks, gateway_calls>>

\* Lines 252-267: the insert of the modification task.
ModifyInsertTask(w) ==
    /\ Ready
    /\ req[w].pc = "insert_task"
    /\ Len(tasks) < MaxTasks
    /\ tasks' = InsertRow(tasks, ModificationTask(req[w].project_id, req[w].change,
                                                   req[w].change_id, req[w].feedback))
    /\ req' = [req EXCEPT ![w].pc = "mark_rejected", ![w].task_id = Len(tasks) + 1]
    /\ UNCHANGED <<projects, spec_files, spec_versions, code_changes,
                   gateway_calls, resp, completed>>

\* Lines 269-273: the original change is marked rejected.
ModifyMarkRejected(w) ==
    /\ Ready
    /\ req[w].pc = "mark_rejected"
    /\ code_changes' = SetApproved(code_changes, req[w].change_id, "false")
    /\ req' = [req EXCEPT ![w].pc = "insert_change"]
    /\ UNCHANGED <<projects, spec_files, spec_versions, tasks,
                   gateway_calls, resp, completed>>

\* process_modification_request, lines 421-442: the insert of the new change.
ModifyInsertChange(w) ==
    /\ Ready
    /\ req[w].pc = "insert_change"
    /\ code_changes' = InsertRow(code_changes,
                                  ModifiedChange(req[w].task_id, req[w].change))
    /\ req' = [req EXCEPT ![w].pc = "complete_task"]
    /\ UNCHANGED <<projects, spec_files, spec_versions, tasks,
                   gateway_calls, resp, completed>>

\* process_modification_request, lines 444-452, and the return of line 278.
ModifyCompleteTask(w) ==
    /\ Ready
    /\ req[w].pc = "complete_task"
    /\ tasks' = CompleteTask(tasks, req[w].task_id,
                     [modification_applied |-> TRUE, feedback |-> req[w].feedback])
    /\ resp' = Response("modify", 200)
    /\ completed' = Completed("modify", req[w].change_id)
    /\ req' = [req EXCEPT ![w] = Idle]
    /\ UNCHANGED <<projects, spec_files, spec_versions, code_changes, gateway_calls>>

\* A store call of the request raises (.execute() on a store that is down or
\* refuses the write): nothing catches it, the request ends in a 500 with what
\* it has written so far left in place.
StoreFails(w) ==
    /\ Ready
    /\ req[w].pc \in {"decide", "insert_task", "mark_rejected", "insert_change",
                       "complete_task"}
    /\ resp' = Response(req[w].op, 500)
    /\ req' = [req EXCEPT ![w] = Idle]
    /\ UNCHANGED <<store, gateway_calls, completed>>

\* The requests made on a change that is pending when the request selects it,
\* and the requests no change is found for.
NextDecide ==
    \/ \E w \in Workers, op \in {"approve", "reject", "modify"}, actor \in Users,
          pid \in ProjectIds, cid \in ChangeIds, feedback \in Feedbacks :
         /\ cid \in DOMAIN code_changes => code_changes[cid].approved = "null"
         /\ DecideRead(w, op, actor, pid, cid, feedback)
    \/ \E w \in Workers : DecideWrite(w)
    \/ \E w \in Workers : ModifyInsertTask(w)
    \/ \E w \in Workers : ModifyMarkRejected(w)
    \/ \E w \in Workers : ModifyInsertChange(w)
    \/ \E w \in Workers : ModifyCompleteTask(w)
    \/ \E w \in Workers : StoreFails(w)
    \/ Reply

\* The review of pending changes with requests served concurrently.
SpecDecide == InitDecide /\ [][NextDecide]_vars

NextListing ==
    \/ NextReview
    \/ \E actor \in Users, pid \in ProjectIds : GetPendingChanges(actor, pid)

\* The review with the listing of pending changes asked at any moment.
SpecListing == InitPopulated /\ [][NextListing]_vars

\* The same with what the event loop guarantees: a response that is ready goes
\* out, and an awaited generate_code call that answers (by returning or by
\* raising) resumes the request that awaits it.
SpecReviewLive ==
    /\ SpecReview
    /\ WF_vars(Reply)
    /\ \A w \in Workers : WF_vars(GenerationReturns(w) \/ GenerationFails(w))

\* ----- generate_code over every tier and agent type

AllAgentTypes == {"design", "backend", "testing"}

\* Two accounts of any tier each own a project and have one submit suspended
\* at the generate_code call, made with any agent type.
InitRouter ==
    /\ \E o \in [Workers -> Accounts], a \in [Workers -> AllAgentTypes] :
          /\ projects = <<NewProject(o[1]), NewProject(o[2])>>
          /\ tasks = <<NewTask(1, a[1], "add login"), NewTask(2, a[2], "add login")>>
          /\ req = [w \in Workers |->
                      [Idle EXCEPT !.pc = "generate", !.op = "submit",
                                   !.actor = o[w], !.tier = UserTier(o[w]),
                                   !.task_id = w, !.agent_type = a[w],
                                   !.task_response =
                                       NewTask(w, a[w], "add login")]]
    /\ spec_files = InitSpecFiles(InitSpecFiles(<<>>, 1, 1), 2, 1)
    /\ spec_versions = <<>>
    /\ code_changes = <<>>
    /\ gateway_calls = 2
    /\ resp = NoResponse
    /\ completed = [op \in {"update", "rollback"} |-> [id \in SpecIds |-> 0]]

NextRouter ==
    \/ \E w \in Workers : GenerationReturns(w)
    \/ \E w \in Workers : GenerationFails(w)
    \/ Reply

SpecRouter == InitRouter /\ [][NextRouter]_vars

\* ------------------------------------------------------------------ ledger

VersionRowsOf(spec_id) ==
    {i \in DOMAIN spec_versions : spec_versions[i].spec_file_id = spec_id}

\* C3: a spec file that has seen N completed updates (and no rollback) has
\* version InitialVersion + N, and its spec_versions rows carry exactly the
\* numbers InitialVersion .. InitialVersion + N - 1, each once.
C3_SequentialUpdates ==
    \A d \in DOMAIN spec_files :
        completed["rollback"][d] = 0 =>
            LET n == completed["update"][d]
                numbers == InitialVersion..(InitialVersion + n - 1)
            IN  /\ spec_files[d].version = InitialVersion + n
                /\ \A i \in VersionRowsOf(d) : spec_versions[i].version \in numbers
                /\ \A v \in numbers :
                       Cardinality({i \in VersionRowsOf(d) :
                                      spec_versions[i].version = v}) = 1

C3_Witness ==
    \E d \in DOMAIN spec_files :
        completed["rollback"][d] = 0 /\ completed["update"][d] >= 2

\* C4: a rollback that returns 200 leaves the document of the target version
\* reading back the target's content, at a version one above the version it
\* had before the rollback.
C4_RollbackRoundTrip ==
    [][resp' = Response("rollback", 200) =>
       \A vid \in DOMAIN spec_versions :
         ( \E actor \in Users, pid \in ProjectIds, ft \in SpecTypeSet :
                 RollbackSpec(actor, pid, ft, vid) )
         => LET v == spec_versions[vid]
                d == spec_files[v.spec_file_id]
            IN  \A id \in CurrentSpecIds(spec_files', d.project_id, d.file_type) :
                    /\ spec_files'[id].content = v.content
                    /\ spec_files'[id].version = d.version + 1
                    /\ id = v.spec_file_id]_vars

C4_Witness ==
    /\ resp = Response("rollback", 200)
    /\ \E d \in DOMAIN spec_files :
          /\ completed["rollback"][d] >= 1
          /\ spec_versions[Len(spec_versions)].spec_file_id = d
          /\ spec_versions[Len(spec_versions)].content # spec_files[d].content

\* C5: no step removes a spec_versions row or changes the number or content of
\* one: the table only grows, at its end.
C5_HistoryAppendOnly ==
    [][/\ Len(spec_versions') >= Len(spec_versions)
       /\ \A i \in DOMAIN spec_versions : spec_versions'[i] = spec_versions[i]]_vars

C5_Witness ==
    /\ Len(spec_versions) >= 3
    /\ \E d \in DOMAIN spec_files :
          completed["rollback"][d] >= 1 /\ completed["update"][d] >= 1

\* ------------------------------------------------------------------ review

ReviewOps == {"submit", "approve", "reject", "modify"}

ChangesOfProject(pid) ==
    {c \in DOMAIN code_changes : tasks[code_changes[c].task_id].project_id = pid}

ChangesOfTask(changes, task_id) ==
    {c \in DOMAIN changes : changes[c].task_id = task_id}

NonOwnerPairs ==
    {ap \in Users \X DOMAIN projects : projects[ap[2]].user_id # ap[1]}

\* C1: whoever is not the owner of project P gets 403 from submit on P and
\* from approve, reject and request_modification on every change of P.
\* Stated on the states in which a request can be served: none of these
\* handlers, called by a non-owner, can take a step whose response is anything
\* other than 403.
C1_NonOwnerForbidden ==
    Ready =>
    \A ap \in NonOwnerPairs :
        /\ \A w \in Workers, agent_type \in AgentTypes,
              description \in Descriptions :
              ~ENABLED ( /\ SubmitTask(w, ap[1], ap[2], agent_type, description)
                         /\ resp' # Response("submit", 403) )
        /\ \A cid \in ChangesOfProject(ap[2]) :
              /\ ~ENABLED ( /\ ApproveChange(ap[1], ap[2], cid)
                            /\ resp' # Response("approve", 403) )
              /\ ~ENABLED ( /\ RejectChange(ap[1], ap[2], cid)
                            /\ resp' # Response("reject", 403) )
              /\ \A feedback \in Feedbacks :
                    ~ENABLED ( /\ RequestModification(ap[1], ap[2], cid, feedback)
                               /\ resp' # Response("modify", 403) )

C1_Witness ==
    /\ resp = Response("modify", 403)
    /\ \E c \in DOMAIN code_changes : code_changes[c].approved = "null"

\* C2: a submit, approve, reject or request_modification answered with 404 or
\* 403 has left every table as it was and has made no generation call.
C2_FailedGuardNoEffect ==
    [][(resp' # resp /\ resp'.op \in ReviewOps /\ resp'.status \in {403, 404})
         => /\ UNCHANGED store
            /\ gateway_calls' = gateway_calls
            /\ req' = req]_vars

C2_Witness ==
    /\ resp = Response("approve", 403)
    /\ \E c \in DOMAIN code_changes : code_changes[c].approved = "null"

\* C6: when the generation call made for a task fails, the task ends with
\* status failed and has no code change.
C6_GenerationFailedMarksTask ==
    [][\A w \in Workers :
         (GenerationFails(w) /\ resp' = Response("submit", 500))
         => /\ tasks'[req[w].task_id].status = "failed"
            /\ ChangesOfTask(code_changes', req[w].task_id) = {}]_vars

\* C7: a request_modification that returns 200 on a pending change C sets
\* C.approved to false, adds exactly one task, whose input context holds the
\* feedback, C's file path and C's id, and adds exactly one code change: of
\* type modify, pending, under the new task.
C7_ModificationChains ==
    [][resp' = Response("modify", 200) =>
         \A actor \in Users, pid \in DOMAIN projects, cid \in DOMAIN code_changes,
            feedback \in Feedbacks :
           ( /\ RequestModification(actor, pid, cid, feedback)
             /\ code_changes[cid].approved = "null" )
           => /\ code_changes'[cid].approved = "false"
              /\ Len(tasks') = Len(tasks) + 1
              /\ \A t \in DOMAIN tasks : tasks'[t] = tasks[t]
              /\ tasks'[Len(tasks')].input_context =
                    [modification_request |-> feedback,
                     original_change_id |-> cid,
                     original_file |-> code_changes[cid].file_path]
              /\ Len(code_changes') = Len(code_changes) + 1
              /\ \A c \in DOMAIN code_changes \ {cid} :
                    code_changes'[c] = code_changes[c]
              /\ code_changes'[Len(code_changes')].task_id = Len(tasks')
              /\ code_changes'[Len(code_changes')].change_type = "modify"
              /\ code_changes'[Len(code_changes')].approved = "null"]_vars

C7_Witness ==
    /\ resp = Response("modify", 200)
    /\ code_changes[Len(code_changes)].change_type = "modify"
    /\ code_changes[Len(code_changes)].approved = "null"
    /\ tasks[Len(tasks)].input_context.original_change_id \in DOMAIN code_changes
    /\ code_changes[tasks[Len(tasks)].input_context.original_change_id].approved
          = "false"

\* C8: once approved is true or false, no later step changes it.
C8_ApprovalTerminal ==
    [][\A c \in DOMAIN code_changes :
         code_changes[c].approved # "null"
         => code_changes'[c].approved = code_changes[c].approved]_vars

\* C10: a task becomes completed or failed only from in_progress, and once
\* completed or failed its status never changes.
C10_TaskStatusOrder ==
    [][\A t \in DOMAIN tasks :
         /\ tasks[t].status \in {"completed", "failed"}
            => tasks'[t].status = tasks[t].status
         /\ ( tasks'[t].status \in {"completed", "failed"}
              /\ tasks'[t].status # tasks[t].status )
            => tasks[t].status = "in_progress"]_vars

\* ------------------------------------------------------------- concurrency

\* C9: under any interleaving of updates and rollbacks, no two spec_versions
\* rows of one spec file carry the same version number with different content.
C9_NoDivergentDuplicates ==
    \A i, j \in DOMAIN spec_versions :
        ( /\ spec_versions[i].spec_file_id = spec_versions[j].spec_file_id
          /\ spec_versions[i].version = spec_versions[j].version )
        => spec_versions[i].content = spec_versions[j].content

\* ------------------------------------------------------ ledger, continued

\* C11: a rollback that names (project_id, file_type) and a version id that is
\* not stored, or is a version of another document, answers 404 and leaves the
\* store as it was; and no rollback changes a spec file of another project or
\* of another type than the one it names.
C11_RollbackScoped ==
    [][\A actor \in Users, pid \in ProjectIds, ft \in SpecTypeSet, vid \in VersionIds :
         RollbackSpec(actor, pid, ft, vid) =>
           /\ ( \/ vid \notin DOMAIN spec_versions
                \/ spec_versions[vid].spec_file_id
                      \notin CurrentSpecIds(spec_files, pid, ft) )
              => (resp' = Response("rollback", 404) /\ UNCHANGED store)
           /\ \A d \in DOMAIN spec_files :
                 (spec_files[d].project_id # pid \/ spec_files[d].file_type # ft)
                 => spec_files'[d] = spec_files[d]]_vars

\* C12: every update or rollback that completes on a spec file leaves its
\* version strictly above the version it had before that step, so that no
\* version number is taken twice by the file.
C12_VersionStrictlyIncreases ==
    [][\A d \in DOMAIN spec_files :
         ( \E op \in {"update", "rollback"} : completed'[op][d] > completed[op][d] )
         => spec_files'[d].version > spec_files[d].version]_vars

\* C13: the spec_versions row an update writes carries the version and the
\* content the spec file had before the update (not the content the update
\* puts in), and the file's version after the update is one above the row's.
C13_SnapshotIsPreUpdate ==
    [][resp' = Response("update", 200) =>
         \A actor \in Users, pid \in DOMAIN projects, ft \in SpecTypeSet,
            content \in Contents :
           UpdateSpecFile(actor, pid, ft, content) =>
             \A id \in CurrentSpecIds(spec_files, pid, ft) :
                /\ Len(spec_versions') = Len(spec_versions) + 1
                /\ spec_versions'[Len(spec_versions')] =
                      [spec_file_id |-> id,
                       version |-> spec_files[id].version,
                       content |-> spec_files[id].content]
                /\ spec_files'[id].version = spec_files[id].version + 1
                /\ spec_files'[id].content = content]_vars

C13_Witness ==
    /\ resp = Response("update", 200)
    /\ \E d \in DOMAIN spec_files :
          /\ completed["update"][d] >= 2
          /\ spec_versions[Len(spec_versions)].spec_file_id = d
          /\ spec_versions[Len(spec_versions)].content # spec_files[d].content
          /\ spec_versions[Len(spec_versions)].version + 1 = spec_files[d].version

\* C16: of two overlapping updates of one spec file the loser writes nothing,
\* so a file that has seen k completed updates (and no rollback) stands at
\* version InitialVersion + k.
C16_NoLostUpdate ==
    \A d \in DOMAIN spec_files :
        completed["rollback"][d] = 0
        => spec_files[d].version = InitialVersion + completed["update"][d]

\* ------------------------------------------------------ review, continued

\* The file paths of the code changes a step has appended, in order.
AppendedPaths ==
    [i \in 1..(Len(code_changes') - Len(code_changes)) |->
        code_changes'[Len(code_changes) + i].file_path]

\* C14: when the generation call of a submit returns the files F, the step
\* appends one code change per path of F, each under the submit's task and
\* pending, changes no other code change, and completes the task with an output
\* listing exactly the paths of F.
C14_OneChangePerFile ==
    [][(resp'.op = "submit" /\ resp'.status = 200) =>
         \A w \in Workers :
           GenerationReturns(w) =>
             LET t == req[w].task_id
                 F == GenerateCode(req[w].tier, req[w].agent_type)
                 new == ChangesOfTask(code_changes', t)
             IN  /\ ChangesOfTask(code_changes, t) = {}
                 /\ Len(code_changes') = Len(code_changes) + Len(F)
                 /\ \A c \in DOMAIN code_changes : code_changes'[c] = code_changes[c]
                 /\ Cardinality(new) = Len(F)
                 /\ \A i \in DOMAIN F :
                       Cardinality({c \in new : code_changes'[c].file_path = F[i]}) = 1
                 /\ \A c \in new : code_changes'[c].approved = "null"
                 /\ tasks'[t].status = "completed"
                 /\ tasks'[t].output = [generated_files |-> F]]_vars

C14_Witness ==
    /\ resp.op = "submit"
    /\ resp.status = 200
    /\ \E t \in DOMAIN tasks :
          /\ tasks[t].status = "completed"
          /\ "generated_files" \in DOMAIN tasks[t].output
          /\ Len(tasks[t].output.generated_files) = 2
          /\ Cardinality(ChangesOfTask(code_changes, t)) = 2

\* The (project id, change id) pairs a request may name for which the join of
\* approve_change and reject_change has no row.
UnresolvedChanges ==
    {pc \in ProjectIds \X ChangeIds :
        \/ pc[2] \notin DOMAIN code_changes
        \/ pc[1] \notin DOMAIN projects
        \/ code_changes[pc[2]].task_id \notin DOMAIN tasks
        \/ tasks[code_changes[pc[2]].task_id].project_id # pc[1]}

\* C15: an approve or a reject that names a change that is not stored, or a
\* change whose task is not stored, or a project that is not stored or is not
\* the project of the change's task, answers 404 and changes no approval.
\* Stated on the states in which a request can be served: such a request can
\* take no step that answers otherwise or changes a code change.
C15_UnresolvedChangeNotFound ==
    Ready =>
    \A pc \in UnresolvedChanges : \A actor \in Users :
        /\ ~ENABLED ( /\ ApproveChange(actor, pc[1], pc[2])
                      /\ ~( /\ resp' = Response("approve", 404)
                            /\ code_changes' = code_changes ) )
        /\ ~ENABLED ( /\ RejectChange(actor, pc[1], pc[2])
                      /\ ~( /\ resp' = Response("reject", 404)
                            /\ code_changes' = code_changes ) )

C15_Witness ==
    /\ resp = Response("reject", 404)
    /\ \E c \in DOMAIN code_changes : code_changes[c].approved = "null"
    /\ \E c \in DOMAIN code_changes : code_changes[c].approved = "true"

\* C17: every task that is stored eventually has status completed or failed.
C17_TasksTerminate ==
    \A t \in 1..MaxTasks :
        (t \in DOMAIN tasks)
        ~> (t \in DOMAIN tasks /\ tasks[t].status \in {"completed", "failed"})

\* C18: a request_modification that returns 200 has called generate_code for
\* its new task.
C18_ModificationCallsGateway ==
    [][resp' = Response("modify", 200) => gateway_calls' = gateway_calls + 1]_vars

\* C20: a task whose generate_code call is still awaited has no code change,
\* and only tasks whose call has returned have any: the tasks that have code
\* changes are no more than the calls made.
C20_NoChangeBeforeResult ==
    /\ \A w \in Workers :
          req[w].pc = "generate" => ChangesOfTask(code_changes, req[w].task_id) = {}
    /\ Cardinality({t \in DOMAIN tasks : ChangesOfTask(code_changes, t) # {}})
          <= gateway_calls

\* ------------------------------------------------------------- tier router

C22_HistoryBelowLive ==
    (\A w \in Workers : req[w].pc = "idle") =>
        \A i \in DOMAIN spec_versions :
            spec_versions[i].version
                < spec_files[spec_versions[i].spec_file_id].version

\* C23: a rollback that returns 200 leaves a spec_versions row holding the
\* version and content the spec file had before the rollback, and a rollback
\* to that row would put that content back.
C23_RollbackKeepsCheckpoint ==
    [][resp' = Response("rollback", 200) =>
         \A vid \in DOMAIN spec_versions :
           (\E actor \in Users, pid \in ProjectIds, ft \in SpecTypeSet :
               RollbackSpec(actor, pid, ft, vid))
           => LET id == spec_versions[vid].spec_file_id
                  before == spec_files[id]
              IN  \E i \in DOMAIN spec_versions' :
                     /\ spec_versions'[i].spec_file_id = id
                     /\ spec_versions'[i].version = before.version
                     /\ spec_versions'[i].content = before.content
                     /\ RollbackData(spec_files'[id], spec_versions'[i]).content
                           = before.content]_vars

C23_Witness ==
    /\ resp = Response("rollback", 200)
    /\ \E d \in DOMAIN spec_files :
          /\ completed["rollback"][d] >= 2
          /\ spec_versions[Len(spec_versions)].spec_file_id = d
          /\ spec_versions[Len(spec_versions)].version + 1 = spec_files[d].version

\* C24: every project has exactly one spec_files row for each of the types
\* created with it, whatever updates and rollbacks have run: they change that
\* row and add none.
C24_OneLiveRow ==
    /\ Len(spec_files) = Len(SpecTypes) * Len(projects)
    /\ \A pid \in DOMAIN projects, ft \in SpecTypeSet :
          Cardinality({i \in DOMAIN spec_files :
                         /\ spec_files[i].project_id = pid
                         /\ spec_files[i].file_type = ft}) = 1

C24_Witness ==
    \E d \in DOMAIN spec_files :
        /\ completed["update"][d] >= 1
        /\ completed["rollback"][d] >= 1
        /\ spec_files[d].version = InitialVersion + 2

\* C26: an update or a rollback asked by someone who does not own the project
\* of the spec file it reaches leaves spec_files and spec_versions as they were.
C26_NonOwnerLedgerUntouched ==
    [][(spec_files' # spec_files \/ spec_versions' # spec_versions) =>
         \A actor \in Users :
           /\ \A pid \in DOMAIN projects, ft \in SpecTypeSet, content \in Contents :
                 projects[pid].user_id # actor
                 => ~UpdateSpecFile(actor, pid, ft, content)
           /\ \A pid \in ProjectIds, ft \in SpecTypeSet, vid \in DOMAIN spec_versions :
                 projects[spec_files[spec_versions[vid].spec_file_id].project_id].user_id
                     # actor
                 => ~RollbackSpec(actor, pid, ft, vid)]_vars

\* ------------------------------------------------- review, third part

\* C25: a request_modification on a code change that is already approved or
\* rejected adds no task and no code change.
C25_ModifyOnlyPending ==
    [][resp'.op = "modify" =>
         \A actor \in Users, pid \in DOMAIN projects, cid \in DOMAIN code_changes,
            feedback \in Feedbacks :
           ( /\ code_changes[cid].approved # "null"
             /\ RequestModification(actor, pid, cid, feedback) )
           => (tasks' = tasks /\ code_changes' = code_changes)]_vars

\* C27: the task a submit returns with 200 is the stored task as it stands
\* when the submit returns.
C27_ReturnedTaskIsStored ==
    (resp.op = "submit" /\ resp.status = 200) => resp.task = tasks[resp.task_id]

\* C21: the listing of project P's pending changes holds exactly the code
\* changes whose task is of P and whose approved is null, each once, a more
\* recent change before an older one.
C21_PendingListing ==
    [][(resp'.op = "pending" /\ resp'.status = 200) =>
         \A actor \in Users, pid \in DOMAIN projects :
           GetPendingChanges(actor, pid) =>
             LET L == resp'.changes
             IN  /\ {L[i] : i \in DOMAIN L} =
                       {c \in DOMAIN code_changes :
                          /\ tasks[code_changes[c].task_id].project_id = pid
                          /\ code_changes[c].approved = "null"}
                 /\ \A i, j \in DOMAIN L : i < j => L[i] > L[j]]_vars

C21_Witness ==
    /\ resp.op = "pending"
    /\ resp.status = 200
    /\ Len(resp.changes) >= 2
    /\ \E c, e \in DOMAIN code_changes :
          /\ code_changes[c].approved = "true"
          /\ code_changes[e].approved = "false"
          /\ tasks[code_changes[c].task_id].project_id
                = tasks[code_changes[resp.changes[1]].task_id].project_id
          /\ tasks[code_changes[e].task_id].project_id
                = tasks[code_changes[resp.changes[1]].task_id].project_id

\* ------------------------------------------------- review, concurrent

\* C28: of the approve, reject and request_modification requests that find one
\* code change pending, at most one returns 200, and the stored approved is
\* that request's decision.
C28_OneDecisionWins ==
    \A c \in DOMAIN code_changes :
        /\ Cardinality({op \in {"approve", "reject", "modify"} :
                          completed[op][c] >= 1}) <= 1
        /\ completed["approve"][c] >= 1 => code_changes[c].approved = "true"
        /\ (completed["reject"][c] >= 1 \/ completed["modify"][c] >= 1)
              => code_changes[c].approved = "false"

\* C29: once no request works on a modification task any more, it is not the
\* case that its original change is rejected while the task is not failed and
\* has no code change.
C29_ModificationNotPartial ==
    \A t \in DOMAIN tasks :
        ( /\ "original_change_id" \in DOMAIN tasks[t].input_context
          /\ \A w \in Workers : req[w].task_id # t )
        => ~( /\ code_changes[tasks[t].input_context.original_change_id].approved
                   = "false"
              /\ tasks[t].status # "failed"
              /\ ChangesOfTask(code_changes, t) = {} )

\* ------------------------------------------------- projects, concurrent

\* C30: an account of the free tier never owns more projects than the free
\* tier's limit of one.
C30_FreeTierOneProject ==
    \A u \in Accounts :
        UserTier(u) = "free" => Cardinality(ProjectsOf(u)) <= TierLimit("free")

====
